---- MODULE Spec2Model ----
(***************************************************************************)
(* A model of metaflow/plugins/conda/conda_step_decorator.py               *)
(* (CondaStepDecorator): the computation of the environment identity, the  *)
(* resolution of an identity against the per-flow conda manifest, the      *)
(* caching of the resolved artifacts, and the rewriting of the launch      *)
(* context of a step.                                                      *)
(*                                                                         *)
(* Python values are modelled as follows.  A dict is a function whose      *)
(* DOMAIN is its key set ("k in d" is k \in DOMAIN d); a dict whose        *)
(* iteration order matters (the library maps) is a sequence of             *)
(* [name, ver] pairs with distinct names.  Package names and versions are  *)
(* naturals: the number of a name is its rank in byte order, so that       *)
(* sorted() over the b"name==ver" tokens is the sort by (name, ver).       *)
(* A file path is [stem, exts]: the suffixes the code tests with           *)
(* endswith() are the elements of exts.  The interpreter is Python 3       *)
(* (the sources use Python-3-only syntax), where bytes and str are         *)
(* different types.                                                        *)
(***************************************************************************)
EXTENDS Integers, Sequences, FiniteSets, TLC

VARIABLES
    TYPE,           \* self.flow_datastore.TYPE of the running process
    conda,          \* CondaStepDecorator.conda is not None
    environments,   \* CondaStepDecorator.environments (ids of the installed envs, as cached)
    manifest,       \* the flow's conda manifest file: env_id -> payload
    installed,      \* the conda installation: env_id -> the packages of that environment
    disk,           \* the local package cache: the tarball paths that are files
    resolved,       \* the env_ids the resolver returned a resolution for to an unforced call of this process
    last,           \* what the last operation was and did
    pure,           \* the inputs, the progress and the results of one call of one function
    rt              \* one decorator instance and the cli_args of a launch

vars == <<TYPE, conda, environments, manifest, installed, disk, resolved, last, pure, rt>>

---------------------------------------------------------------------------
(* Bounds of the model. *)

\* The artifacts the resolver can return are 1..NumPkgs.
NumPkgs == 2

---------------------------------------------------------------------------
(* Names, versions and the decorator attributes. *)

None == 0

\* Package names by rank in byte order.
AZURE_STORAGE_BLOB == 1
BOTO3 == 2
NUMPY == 3
PYTHON == 4
REQUESTS == 5

\* platform.python_version() of the host interpreter.
HostPython == 3

DatastoreTypes == {"local", "s3", "azure"}

kv(n, v) == [name |-> n, ver |-> v]

\* d[kv.name] = kv.ver on an insertion-ordered dict.
dict_set(d, p) ==
    IF \E i \in DOMAIN d : d[i].name = p.name
    THEN [i \in DOMAIN d |-> IF d[i].name = p.name THEN p ELSE d[i]]
    ELSE Append(d, p)

RECURSIVE dict_update(_, _)
\* d.update(e): the pairs of e are set in e's order.
dict_update(d, e) ==
    IF e = <<>> THEN d ELSE dict_update(dict_set(d, Head(e)), Tail(e))

\* get_pinned_conda_libs(python_version, datastore_type)
get_pinned_conda_libs(python, type) ==
    <<kv(REQUESTS, 2)>> \o
    (IF type = "s3" THEN <<kv(BOTO3, 1)>>
     ELSE IF type = "azure" THEN <<kv(AZURE_STORAGE_BLOB, 1)>>
     ELSE <<>>)

\* The attributes of a decorator (self.attributes, or the conda_base ones).
Attrs(libraries, channels, python, disabled) ==
    [libraries |-> libraries, channels |-> channels, python |-> python, disabled |-> disabled]

\* A channels attribute: is_list is isinstance(channels, list).
ChannelList(items) == [is_list |-> TRUE, items |-> items]

defaults == Attrs(<<>>, ChannelList(<<>>), None, "None")

Deco(flow, architecture, attributes, base_attributes) ==
    [flow |-> flow, architecture |-> architecture,
     attributes |-> attributes, base_attributes |-> base_attributes]

python_version(d) ==
    IF d.attributes.python # None THEN d.attributes.python
    ELSE IF d.base_attributes.python # None THEN d.base_attributes.python
    ELSE HostPython

\* A character of a str: a word (a package name or a version, by its rank)
\* or the punctuation mark c.
Sym(c, n) == [c |-> c, n |-> n]
W(n) == Sym("w", n)
Ch(c) == Sym(c, 0)

\* isinstance(x, str) for a libraries attribute: a str is a sequence of
\* characters, a dict a sequence of items (the empty str and the empty dict
\* both update nothing).
is_str(x) == x # <<>> /\ "c" \in DOMAIN x[1]

RECURSIVE lstrip(_, _)
lstrip(s, chars) ==
    IF s # <<>> /\ Head(s).c \in chars THEN lstrip(Tail(s), chars) ELSE s

RECURSIVE rstrip(_, _)
rstrip(s, chars) ==
    IF s # <<>> /\ s[Len(s)].c \in chars THEN rstrip(SubSeq(s, 1, Len(s) - 1), chars) ELSE s

\* s.strip(chars)
strip(s, chars) == rstrip(lstrip(s, chars), chars)

RECURSIVE split(_, _)
\* s.split(sep)
split(s, sep) ==
    IF \A i \in DOMAIN s : s[i].c # sep THEN <<s>>
    ELSE LET i == CHOOSE k \in DOMAIN s :
                      s[k].c = sep /\ \A j \in 1..(k - 1) : s[j].c # sep
         IN  <<SubSeq(s, 1, i - 1)>> \o split(SubSeq(s, i + 1, Len(s)), sep)

\* Line 113: map(lambda x: x.strip().strip("\"'"), a.split(":"))
stripped_parts(a) ==
    LET parts == split(a, ":")
    IN  [i \in DOMAIN parts |-> strip(strip(parts[i], {" "}), {"\"", "'"})]

\* The name or the version a part spells (the parts of the strings drawn are
\* one word or empty).
word(part) == IF Len(part) = 1 /\ part[1].c = "w" THEN part[1].n ELSE None

\* Lines 109-115: the libraries of the step as a dict.  parsed is FALSE when
\* dict() raises ValueError on an element that is not a pair.
step_libraries(libraries) ==
    IF ~is_str(libraries) THEN [parsed |-> TRUE, value |-> libraries]
    ELSE LET s == strip(libraries, {"\"", "{", "}", "'"})
         IN  IF s = <<>> THEN [parsed |-> TRUE, value |-> <<>>]
             ELSE LET elems == split(s, ",")
                      pairs == [i \in DOMAIN elems |-> stripped_parts(elems[i])]
                  IN  IF \E i \in DOMAIN pairs : Len(pairs[i]) # 2
                      THEN [parsed |-> FALSE, value |-> <<>>]
                      ELSE [parsed |-> TRUE,
                            value |-> dict_update(<<>>,
                                         [i \in DOMAIN pairs |->
                                             kv(word(pairs[i][1]), word(pairs[i][2]))])]

\* _lib_deps raises: the str of the step is not a list of pairs.
lib_deps_raises(d) == ~step_libraries(d.attributes.libraries).parsed

\* A variant of lines 103-117 that applies the libraries of the flow last.
lib_deps_flow_last(d, type) ==
    LET deps == get_pinned_conda_libs(python_version(d), type)
        with_step == dict_update(deps, step_libraries(d.attributes.libraries).value)
    IN  dict_update(with_step, d.base_attributes.libraries)

\* Lines 103-117, when it does not raise.
lib_deps(d, type) ==
    LET deps == get_pinned_conda_libs(python_version(d), type)
        with_base == dict_update(deps, d.base_attributes.libraries)
    IN  dict_update(with_base, step_libraries(d.attributes.libraries).value)

channel_deps(d) ==
    (IF d.attributes.channels.is_list THEN d.attributes.channels.items ELSE <<>>)
    \o d.base_attributes.channels.items

\* b"%s==%s" % (name, ver): a bytes token.
PkgToken(n, v) == [t |-> "bytes", name |-> n, ver |-> v]
\* b"-c %s" % channel: a bytes token.
ChannelToken(c) == [t |-> "bytes", c |-> c]
\* A channel as _channel_deps returns it: a str.
StrItem(c) == [t |-> "str", c |-> c]

step_deps(d, type, include_channels) ==
    LET libs == lib_deps(d, type)
        chans == channel_deps(d)
    IN  <<PkgToken(PYTHON, python_version(d))>>
        \o [i \in DOMAIN libs |-> PkgToken(libs[i].name, libs[i].ver)]
        \o (IF include_channels
            THEN [i \in DOMAIN chans |-> ChannelToken(chans[i])]
            ELSE <<>>)

\* The byte order of two b"name==ver" tokens.
TokenLess(a, b) == a.name < b.name \/ (a.name = b.name /\ a.ver < b.ver)

\* hashlib.sha1(x).hexdigest(): an uninterpreted, collision-free digest of x.
sha1(x) == [sha1 |-> x]

\* b" ".join(items): only bytes-like items can be joined.
bytes_join(items) ==
    IF \E i \in DOMAIN items : items[i].t # "bytes"
    THEN [ok |-> FALSE, exc |-> "TypeError"]
    ELSE [ok |-> TRUE, value |-> items]

env_id(d, type) ==
    LET deps == step_deps(d, type, FALSE)
        chans == channel_deps(d)
        joined == bytes_join(SortSeq(deps, TokenLess)
                             \o [i \in DOMAIN chans |-> StrItem(chans[i])])
    IN  IF joined.ok
        THEN [ok |-> TRUE,
              value |-> <<"metaflow", d.flow, d.architecture, sha1(joined.value)>>]
        ELSE joined

---------------------------------------------------------------------------
(* The conda installation and the artifacts (class Conda, module .conda). *)

Pkgs == 1..NumPkgs

\* What the resolver can return: its two candidate solutions, the artifacts
\* 1..NumPkgs-1 and 1..NumPkgs, in install order.
Resolutions == {[i \in 1..k |-> i] : k \in {NumPkgs - 1, NumPkgs}}

\* The suffixes of the tarball path conda reports for artifact p.
ReportedExts(p) ==
    CASE p % 4 = 1 -> <<".tar.bz2">>
      [] p % 4 = 2 -> <<".conda">>
      [] p % 4 = 3 -> <<".tar.bz2", ".conda">>
      [] OTHER -> <<>>

Url(p) == [netloc |-> "repo", path |-> p]

\* One record of conda.package_info(env_id).
PackageInfo(p) ==
    [url |-> Url(p), md5 |-> p, fn |-> p,
     package_tarball_full_path |-> [stem |-> p, exts |-> ReportedExts(p)]]

\* The file conda's package cache holds for artifact p.
CondaTarball(p) == [stem |-> p, exts |-> <<".tar.bz2">>]

\* conda.package_info(env_id): the metadata of the installed environment.
package_info(s, id) == [i \in DOMAIN s.installed[id] |-> PackageInfo(s.installed[id][i])]

\* conda.environments(flow.name)
conda_environments(s) == DOMAIN s.installed

\* The state after conda.create installed the packages pkgs as environment id:
\* an existing environment of that id is replaced, the tarballs are in the cache.
conda_create(s, id, pkgs) ==
    [s EXCEPT
        !.installed = [e \in DOMAIN s.installed \cup {id} |->
                          IF e = id THEN pkgs ELSE s.installed[e]],
        !.disk = s.disk \cup {CondaTarball(pkgs[i]) : i \in DOMAIN pkgs}]

\* read_conda_manifest(ds_root, flow.name)
read_conda_manifest(s) == s.manifest

\* write_to_conda_manifest(ds_root, flow.name, env_id, payload): the entry of
\* env_id is replaced by payload, the other entries are kept.
write_to_conda_manifest(m, id, payload) ==
    [e \in DOMAIN m \cup {id} |-> IF e = id THEN payload ELSE m[e]]

---------------------------------------------------------------------------
(* _cache_env *)

endswith(path, suffix) ==
    Len(path.exts) > 0 /\ path.exts[Len(path.exts)] = suffix

\* A variant of lines 213-219 that does not strip '.conda'.
tarball_path_unstripped(info) ==
    LET reported == info.package_tarball_full_path
    IN  IF ~endswith(reported, ".tar.bz2")
        THEN [reported EXCEPT !.exts = Append(reported.exts, ".tar.bz2")]
        ELSE reported

\* A variant of lines 213-219 that loses the name of the file.
tarball_path_shared(info) == [stem |-> 0, exts |-> <<".tar.bz2">>]

\* A variant of lines 213-219 that takes the reported path as it is.
tarball_path_reported(info) == info.package_tarball_full_path

\* Lines 213-219: the local tarball path of a package_info record.
tarball_path(info) ==
    LET reported == info.package_tarball_full_path
        stripped == IF endswith(reported, ".conda")
                    THEN [reported EXCEPT !.exts = SubSeq(reported.exts, 1, Len(reported.exts) - 1)]
                    ELSE reported
    IN  IF ~endswith(stripped, ".tar.bz2")
        THEN [stripped EXCEPT !.exts = Append(stripped.exts, ".tar.bz2")]
        ELSE stripped

\* Lines 206-212: the key of the artifact in the remote store.
dest_path(info) ==
    [netloc |-> info.url.netloc, path |-> info.url.path, md5 |-> info.md5, fn |-> info.fn]

\* os.path.isfile(path)
isfile(files, path) == path \in files

\* Lines 203-223: files, the (path, tarball_path) pair of every package.
cache_files(infos) ==
    [i \in DOMAIN infos |-> [path |-> dest_path(infos[i]), tarball_path |-> tarball_path(infos[i])]]

\* Lines 220-222: to_download, the (url, tarball_path) entries of the missing tarballs.
to_download(files, infos) ==
    LET missing(i) == ~isfile(files, tarball_path(infos[i]))
        idx == {i \in DOMAIN infos : missing(i)}
        RECURSIVE build(_)
        build(i) == IF i > Len(infos) THEN <<>>
                    ELSE (IF i \in idx
                          THEN <<[url |-> infos[i].url, local_path |-> tarball_path(infos[i])]>>
                          ELSE <<>>) \o build(i + 1)
    IN  build(1)

\* What one _download(entry) can meet: a 200 response written to the file; an
\* HTTP error response (requests.get returns it, its body is written to the
\* file); a connection error (requests.get raises, no file); a write error
\* (the file is opened, the copy raises).
FetchResults == {"ok", "http_error", "conn_error", "write_error"}

\* Lines 196-200: whether _download raises on this result.
download_raises(result) == result \in {"conn_error", "write_error"}

\* Lines 196-200: whether _download leaves a file at local_path (the tarball,
\* the body of the error response, or what was written before the write error).
download_leaves_file(result) == result \in {"ok", "http_error", "write_error"}

\* The disk after Pool(8).map(_download, queue) met results[i] on entry i.
downloaded(files, queue, results) ==
    files \cup {queue[i].local_path : i \in {j \in DOMAIN queue : download_leaves_file(results[j])}}

\* The results other than "ok" among the fetches.
fetch_failures(results) == {results[i] : i \in DOMAIN results} \ {"ok"}

\* _cache_env on state s for environment id: the set of its possible outcomes.
\* ok: it returned (keys is the returned list); otherwise exc names the error.
cache_env(s, id) ==
    IF id \notin DOMAIN s.installed
    THEN {[ok |-> FALSE, exc |-> "package_info", disk |-> s.disk, keys |-> <<>>,
           queued |-> <<>>, failures |-> {}, uploaded |-> FALSE]}
    ELSE
    LET infos == package_info(s, id)
        files == cache_files(infos)
        queue == to_download(s.disk, infos)
    IN  UNION {
          LET after == downloaded(s.disk, queue, results)
              failed == \E i \in DOMAIN queue : download_raises(results[i])
          IN  IF failed
              THEN {[ok |-> FALSE, exc |-> "download", disk |-> after, keys |-> <<>>,
                     queued |-> queue, failures |-> fetch_failures(results), uploaded |-> FALSE]}
              ELSE {[ok |-> up, exc |-> IF up THEN "" ELSE "upload", disk |-> after,
                     keys |-> IF up THEN [i \in DOMAIN files |-> files[i].path] ELSE <<>>,
                     queued |-> queue, failures |-> fetch_failures(results), uploaded |-> up]
                    : up \in BOOLEAN}
          : results \in [DOMAIN queue -> FetchResults] }

---------------------------------------------------------------------------
(* _resolve_step_environment and _prepare_step_environment.  An operation   *)
(* is a function of the state record s (the variables of the process, the  *)
(* manifest, the conda installation and the disk) to the set of its        *)
(* possible outcomes: records of the state it leaves, whether it returned  *)
(* (ok) or raised (exc), the env_id and a log of what it invoked.          *)

State ==
    [TYPE |-> TYPE, conda |-> conda, environments |-> environments,
     manifest |-> manifest, installed |-> installed, disk |-> disk,
     resolved |-> resolved]

NoId == <<>>

\* The state of an identity in a manifest.
EntryState(m, id) ==
    IF id \notin DOMAIN m THEN "Unresolved"
    ELSE IF "cache_urls" \notin DOMAIN m[id] THEN "Resolved"
    ELSE "Resolved+Cached"

NoLog ==
    [resolver |-> FALSE, explicit |-> FALSE, cache |-> FALSE, wrote |-> FALSE,
     queued |-> <<>>, failures |-> {}, uploaded |-> FALSE]

Outcome(s, ok, exc, id, log) == [s |-> s, ok |-> ok, exc |-> exc, env_id |-> id, log |-> log]

\* Lines 161-165: the manifest entry has to be (re)written.
needs_update(force, id, cached_deps) ==
    force \/ id \notin DOMAIN cached_deps \/ "cache_urls" \notin DOMAIN cached_deps[id]

\* A variant of line 166 that also resolves again an entry without cache_urls.
needs_resolve_uncached(force, id, cached_deps) ==
    force \/ id \notin DOMAIN cached_deps \/ "cache_urls" \notin DOMAIN cached_deps[id]

\* A variant of line 166 that ignores force.
needs_resolve_unforced(force, id, cached_deps) ==
    id \notin DOMAIN cached_deps

\* Line 166: the resolver has to run.
needs_resolve(force, id, cached_deps) ==
    force \/ id \notin DOMAIN cached_deps

\* A variant of lines 184-187 that leaves out s3.
needs_cache_azure_only(type, payload) ==
    type \in {"azure"} /\ "cache_urls" \notin DOMAIN payload

\* A variant of lines 184-187 that leaves out azure.
needs_cache_s3_only(type, payload) ==
    type \in {"s3"} /\ "cache_urls" \notin DOMAIN payload

\* Lines 184-187: the artifacts have to be cached.
needs_cache(type, payload) ==
    type \in {"s3", "azure"} /\ "cache_urls" \notin DOMAIN payload

\* Lines 175-180: the payload of a resolution (exact_deps, urls, order).
new_payload(deps, pkgs) ==
    [explicit |-> [i \in DOMAIN pkgs |-> [exact |-> pkgs[i]]],
     deps |-> [i \in DOMAIN deps |-> [deps[i] EXCEPT !.t = "str"]],
     urls |-> [i \in DOMAIN pkgs |-> Url(pkgs[i])],
     order |-> [i \in DOMAIN pkgs |-> PackageInfo(pkgs[i]).fn]]

\* A variant of line 188 that stores an empty list.
with_no_cache_urls(payload, keys) ==
    [k \in DOMAIN payload \cup {"cache_urls"} |->
        IF k = "cache_urls" THEN <<>> ELSE payload[k]]

\* Line 188: payload["cache_urls"] = keys
with_cache_urls(payload, keys) ==
    [k \in DOMAIN payload \cup {"cache_urls"} |->
        IF k = "cache_urls" THEN keys ELSE payload[k]]

\* The resolution fields of a payload.
ResolutionFields == {"explicit", "deps", "urls", "order"}

\* Lines 156-160: the class-level conda handle is created on first use.
ensure_conda(s) ==
    IF s.conda THEN s
    ELSE [s EXCEPT !.conda = TRUE, !.environments = conda_environments(s)]

\* A variant of lines 184-192 that writes the payload before it caches.
write_and_cache(s, id, payload, log) ==
    LET sw == [s EXCEPT !.manifest = write_to_conda_manifest(s.manifest, id, payload)]
    IN  IF needs_cache(s.TYPE, payload)
        THEN { IF c.ok
               THEN Outcome([sw EXCEPT !.disk = c.disk,
                                       !.manifest = write_to_conda_manifest(
                                           sw.manifest, id, with_cache_urls(payload, c.keys)),
                                       !.environments = conda_environments(sw)],
                            TRUE, "", id,
                            [log EXCEPT !.cache = TRUE, !.queued = c.queued,
                                        !.failures = c.failures, !.uploaded = c.uploaded,
                                        !.wrote = TRUE])
               ELSE Outcome([sw EXCEPT !.disk = c.disk], FALSE, c.exc, id,
                            [log EXCEPT !.cache = TRUE, !.queued = c.queued,
                                        !.failures = c.failures, !.uploaded = c.uploaded,
                                        !.wrote = TRUE])
               : c \in cache_env(s, id) }
        ELSE {Outcome([sw EXCEPT !.environments = conda_environments(sw)],
                      TRUE, "", id, [log EXCEPT !.wrote = TRUE])}

\* Lines 184-192: caching where needed, the manifest write and the refresh.
cache_and_write(s, id, payload, log) ==
    IF needs_cache(s.TYPE, payload)
    THEN { LET lg == [log EXCEPT !.cache = TRUE, !.queued = c.queued,
                                 !.failures = c.failures, !.uploaded = c.uploaded]
               sc == [s EXCEPT !.disk = c.disk]
           IN  IF c.ok
               THEN LET sw == [sc EXCEPT !.manifest =
                                  write_to_conda_manifest(sc.manifest, id,
                                                          with_cache_urls(payload, c.keys))]
                    IN  Outcome([sw EXCEPT !.environments = conda_environments(sw)],
                                TRUE, "", id, [lg EXCEPT !.wrote = TRUE])
               ELSE Outcome(sc, FALSE, c.exc, id, lg)
           : c \in cache_env(s, id) }
    ELSE LET sw == [s EXCEPT !.manifest = write_to_conda_manifest(s.manifest, id, payload)]
         IN  {Outcome([sw EXCEPT !.environments = conda_environments(sw)],
                      TRUE, "", id, [log EXCEPT !.wrote = TRUE])}

\* Lines 153-193.
resolve_step_environment(s, d, force) ==
    LET e == env_id(d, s.TYPE)
    IN  IF ~e.ok THEN {Outcome(s, FALSE, e.exc, NoId, NoLog)}
        ELSE
        LET id == e.value
            cached_deps == read_conda_manifest(s)
            s1 == ensure_conda(s)
        IN  IF ~needs_update(force, id, cached_deps)
            THEN {Outcome(s1, TRUE, "", id, NoLog)}
            ELSE IF needs_resolve(force, id, cached_deps)
            THEN LET s2 == [s1 EXCEPT !.resolved = IF force THEN @ ELSE @ \cup {id}]
                     lg == [NoLog EXCEPT !.resolver = TRUE]
                 IN  {Outcome(s1, FALSE, "resolver", id, lg)}
                     \cup UNION { cache_and_write(conda_create(s2, id, pkgs), id,
                                                  new_payload(step_deps(d, s.TYPE, TRUE), pkgs),
                                                  lg)
                                  : pkgs \in Resolutions }
            ELSE cache_and_write(s1, id, cached_deps[id], NoLog)

\* The packages a list of urls names.
pkgs_of_urls(urls) == [i \in DOMAIN urls |-> urls[i].path]

\* A variant of lines 241-256 that does not create a missing environment.
prepare_without_create(s, d) == resolve_step_environment(s, d, FALSE)

\* Lines 241-256.
prepare_step_environment(s, d) ==
    UNION {
        IF ~r.ok \/ r.env_id \in r.s.environments THEN {r}
        ELSE LET cached_deps == read_conda_manifest(r.s)
                 lg == [r.log EXCEPT !.explicit = TRUE]
                 sc == conda_create(r.s, r.env_id, pkgs_of_urls(cached_deps[r.env_id].urls))
             IN  { [r EXCEPT !.ok = FALSE, !.exc = "create", !.log = lg],
                   [r EXCEPT !.s = [sc EXCEPT !.environments = conda_environments(sc)],
                             !.log = lg] }
        : r \in resolve_step_environment(s, d, FALSE) }

---------------------------------------------------------------------------
(* The decorator instances of the flow. *)

NoChannels == ChannelList(<<>>)

\* A step naming the storage pins itself: its identity is that of every datastore type.
StepA == Deco("F", "linux-64",
              Attrs(<<kv(BOTO3, 1), kv(AZURE_STORAGE_BLOB, 1)>>, NoChannels, None, "None"),
              defaults)
\* The libraries of StepA, given in the other order.
StepB == Deco("F", "linux-64",
              Attrs(<<kv(AZURE_STORAGE_BLOB, 1), kv(BOTO3, 1)>>, NoChannels, None, "None"),
              defaults)
\* One more library: another identity.
StepC == Deco("F", "linux-64",
              Attrs(<<kv(BOTO3, 1), kv(AZURE_STORAGE_BLOB, 1), kv(NUMPY, 1)>>, NoChannels, None, "None"),
              defaults)
\* A step with a channel.
StepD == Deco("F", "linux-64",
              Attrs(<<kv(BOTO3, 1), kv(AZURE_STORAGE_BLOB, 1)>>, ChannelList(<<"conda-forge">>), None, "None"),
              defaults)

\* The steps of the resolution state machine (StepB has the identity of StepA).
Decos == {StepA, StepC, StepD}

\* The identities of the flow's steps.
EnvIds == {env_id(d, t).value : d \in {StepA, StepC}, t \in DatastoreTypes}

---------------------------------------------------------------------------
(* The specification of the resolution state machine. *)

NoPure == <<>>
NoRt == <<>>

\* The state an operation leaves, and the record of the call.
CommitState(o, op, force) ==
    /\ TYPE' = o.s.TYPE
    /\ conda' = o.s.conda
    /\ environments' = o.s.environments
    /\ manifest' = o.s.manifest
    /\ installed' = o.s.installed
    /\ disk' = o.s.disk
    /\ resolved' = o.s.resolved
    /\ last' = [op |-> op, force |-> force, ok |-> o.ok, exc |-> o.exc,
                env_id |-> o.env_id, before |-> EntryState(manifest, o.env_id),
                log |-> o.log]

Commit(o, op, force) == CommitState(o, op, force) /\ UNCHANGED <<pure, rt>>

NoCall(op) ==
    [op |-> op, force |-> FALSE, ok |-> TRUE, exc |-> "", env_id |-> NoId,
     before |-> "Unresolved", log |-> NoLog]

\* A process that starts with datastore type t on the manifest, the conda
\* installation and the disk of w: lines 71-72, the class attributes.
FreshProcess(t, w) ==
    [TYPE |-> t, conda |-> FALSE, environments |-> {},
     manifest |-> w.manifest, installed |-> w.installed, disk |-> w.disk,
     resolved |-> {}]

EmptyWorld == [manifest |-> <<>>, installed |-> <<>>, disk |-> {}]

\* What an earlier process of the flow can have left: nothing, or what one
\* successful resolution of StepA under some datastore type left, with the
\* conda environment still there or removed since.
PriorWorlds ==
    {EmptyWorld} \cup
    UNION { { [manifest |-> o.s.manifest, installed |-> o.s.installed, disk |-> o.s.disk],
              [manifest |-> o.s.manifest, installed |-> <<>>, disk |-> o.s.disk] }
            : o \in { x \in UNION { resolve_step_environment(FreshProcess(t, EmptyWorld), StepA, FALSE)
                                      : t \in DatastoreTypes } : x.ok } }

Init ==
    /\ \E t \in DatastoreTypes, w \in PriorWorlds :
          LET s == FreshProcess(t, w)
          IN  /\ TYPE = s.TYPE
              /\ conda = s.conda
              /\ environments = s.environments
              /\ manifest = s.manifest
              /\ installed = s.installed
              /\ disk = s.disk
              /\ resolved = s.resolved
    /\ last = NoCall("start")
    /\ pure = NoPure
    /\ rt = NoRt

\* The user runs `conda clean`: the tarballs of the package cache are removed.
CondaClean ==
    /\ disk' = {}
    /\ last' = NoCall("clean")
    /\ UNCHANGED <<TYPE, conda, environments, manifest, installed, resolved, pure, rt>>

ResolveStepEnvironment ==
    \E d \in Decos, force \in BOOLEAN :
        \E o \in resolve_step_environment(State, d, force) : Commit(o, "resolve", force)

PrepareStepEnvironment ==
    \E d \in Decos :
        \E o \in prepare_step_environment(State, d) : Commit(o, "prepare", FALSE)

Next ==
    \/ CondaClean
    \/ ResolveStepEnvironment
    \/ PrepareStepEnvironment

Spec == Init /\ [][Next]_vars

---------------------------------------------------------------------------
(* Properties of the resolution state machine.  In a step that changes the  *)
(* state, last' describes the operation that made the step.                *)

RemoteTypes == {"s3", "azure"}

\* The call that made the step was _resolve_step_environment on an identity.
ResolveCall == last'.op = "resolve" /\ last'.env_id # NoId

\* The keys _cache_env returns for the packages pkgs.
KeysOf(pkgs) == [i \in DOMAIN pkgs |-> dest_path(PackageInfo(pkgs[i]))]

\* C1: within one process, over calls made with force=false, the resolver
\* (the non-explicit conda.create) is invoked at most once per identity, also
\* after a call that failed in caching or upload: a call with force=false
\* never invokes it for an identity the resolver already returned a
\* resolution for to an earlier call with force=false of the process.
C1_ResolverAtMostOnce ==
    [][(last'.op \in {"resolve", "prepare"} /\ ~last'.force /\ last'.log.resolver)
        => last'.env_id \notin resolved]_vars

\* The entry of id is in the terminal state for the requirements of type.
Terminal(m, id, type) ==
    /\ id \in DOMAIN m
    /\ ResolutionFields \subseteq DOMAIN m[id]
    /\ type \in RemoteTypes => "cache_urls" \in DOMAIN m[id]

C2_Case == ResolveCall /\ ~last'.force /\ Terminal(manifest, last'.env_id, TYPE)

\* C2 (as claimed): once the entry of an identity is in the terminal state, a
\* further _resolve_step_environment with force=false invokes neither the
\* resolver nor _cache_env, performs no manifest write and leaves the
\* manifest unchanged.
C2_TerminalCallIsNoOp ==
    [][C2_Case => /\ ~last'.log.resolver
                  /\ ~last'.log.cache
                  /\ ~last'.log.wrote
                  /\ manifest' = manifest]_vars

\* C2 (amended): such a call returns, invokes neither the resolver nor
\* _cache_env and leaves the manifest unchanged; it performs no manifest write
\* when the entry has cache_urls, and rewrites the identical entry when the
\* entry has none (the local datastore).
C2_TerminalCallKeepsManifest ==
    [][C2_Case => /\ last'.ok
                  /\ ~last'.log.resolver
                  /\ ~last'.log.cache
                  /\ manifest' = manifest
                  /\ last'.log.wrote <=> "cache_urls" \notin DOMAIN manifest[last'.env_id]]_vars

\* C2 (witness): an unforced call under the local datastore found a resolved
\* entry and rewrote it.
C2_Witness ==
    /\ last.op = "resolve" /\ ~last.force /\ last.ok
    /\ TYPE = "local" /\ last.before = "Resolved"
    /\ last.log.wrote /\ ~last.log.resolver /\ ~last.log.cache

Rank(m, id) ==
    CASE EntryState(m, id) = "Unresolved" -> 0
      [] EntryState(m, id) = "Resolved" -> 1
      [] OTHER -> 2

C4_Case == ResolveCall /\ last'.force /\ last'.env_id \in DOMAIN manifest

C5_Case ==
    /\ ResolveCall /\ ~last'.force
    /\ EntryState(manifest, last'.env_id) = "Resolved"
    /\ TYPE \in RemoteTypes

\* C5: with force=false, an entry without cache_urls and the datastore s3 or
\* azure, _resolve_step_environment does not invoke the resolver, calls
\* _cache_env and, when that returns, writes the entry with its stored
\* fields unchanged and cache_urls added; when it raises, nothing is written.
C5_CachesStoredResolution ==
    [][C5_Case =>
        LET id == last'.env_id
        IN  /\ ~last'.log.resolver
            /\ last'.log.cache
            /\ last'.ok =>
                /\ last'.log.wrote
                /\ DOMAIN manifest' = DOMAIN manifest
                /\ DOMAIN manifest'[id] = DOMAIN manifest[id] \cup {"cache_urls"}
                /\ \A k \in DOMAIN manifest[id] : manifest'[id][k] = manifest[id][k]
                /\ manifest'[id].cache_urls = KeysOf(installed[id])
            /\ ~last'.ok => ~last'.log.wrote /\ manifest' = manifest]_vars

\* C5 (witness): an unforced call under s3 or azure found a resolved entry
\* and cached it.
C5_Witness ==
    /\ last.op = "resolve" /\ ~last.force /\ last.ok
    /\ TYPE \in RemoteTypes /\ last.before = "Resolved"
    /\ last.log.cache /\ last.log.wrote /\ ~last.log.resolver
    /\ EntryState(manifest, last.env_id) = "Resolved+Cached"

\* C8: when _cache_env runs and the .tar.bz2 tarball of every artifact of the
\* environment is on disk (they all are when conda.create ran in the same
\* call), nothing is queued and nothing is downloaded: the disk gains no file
\* but those conda.create placed.
C8_NoDownloadWhenAllLocal ==
    [][(/\ last'.log.cache
        /\ last'.env_id \in DOMAIN installed'
        /\ \/ last'.log.resolver
           \/ \A i \in DOMAIN installed'[last'.env_id] :
                 CondaTarball(installed'[last'.env_id][i]) \in disk)
       => /\ last'.log.queued = <<>>
          /\ last'.log.failures = {}
          /\ disk' = disk \cup
                (IF last'.log.resolver
                 THEN {CondaTarball(installed'[last'.env_id][i]) : i \in DOMAIN installed'[last'.env_id]}
                 ELSE {})]_vars

\* C8 (witness): _cache_env ran for an environment resolved earlier whose
\* tarballs (one of them reported with the .conda suffix) were all on disk,
\* and queued nothing.
C8_Witness ==
    /\ last.log.cache /\ ~last.log.resolver /\ last.ok
    /\ last.log.queued = <<>>
    /\ last.env_id \in DOMAIN installed
    /\ \E i \in DOMAIN installed[last.env_id] :
          ReportedExts(installed[last.env_id][i]) = <<".conda">>

\* C9: when the fetch of a queued artifact fails (a connection error, an HTTP
\* error response, a local write error), _cache_env raises, nothing is
\* uploaded and no cache_urls are written for the environment.
C9_FetchFailureAborts ==
    last.log.failures # {} =>
        /\ ~last.ok
        /\ ~last.log.uploaded
        /\ ~last.log.wrote

---------------------------------------------------------------------------
(* The specification of _env_id as a function: two decorators a and b and  *)
(* a datastore type are drawn, and _env_id is applied to each.  b is a     *)
(* with its libraries inserted in another order or its channels given in   *)
(* another order.                                                          *)

\* The library maps and the channel lists of a decorator have at most this
\* many entries.
MaxLen == 2

LibNames == {BOTO3, NUMPY}
LibVersions == {1, 2}
Channels == {"bioconda", "conda-forge"}

\* The insertion-ordered maps over LibNames of at most MaxLen entries.
LibMaps ==
    UNION { { m \in [1..n -> [name : LibNames, ver : LibVersions]] :
                \A i, j \in 1..n : i # j => m[i].name # m[j].name }
            : n \in 0..MaxLen }

ChannelSeqs == UNION { [1..n -> Channels] : n \in 0..MaxLen }

PureDecos ==
    { Deco("F", "linux-64", Attrs(libs, ChannelList(chans), None, "None"),
           Attrs(base, NoChannels, None, "None"))
      : libs \in LibMaps, chans \in ChannelSeqs, base \in {<<>>, <<kv(NUMPY, 1)>>} }

Range(f) == {f[i] : i \in DOMAIN f}

\* f is g in another order.
IsPermutation(f, g) ==
    /\ Len(f) = Len(g)
    /\ \A x \in Range(f) \cup Range(g) :
          Cardinality({i \in DOMAIN f : f[i] = x}) = Cardinality({i \in DOMAIN g : g[i] = x})

\* a and b have the flow name, the architecture, the python version and the
\* set of (package, version) pairs in common.
SameDeps(a, b, type) ==
    /\ a.flow = b.flow /\ a.architecture = b.architecture
    /\ python_version(a) = python_version(b)
    /\ Range(lib_deps(a, type)) = Range(lib_deps(b, type))

NotComputed == [ok |-> FALSE, exc |-> "not computed"]

InitPure ==
    /\ TYPE = "local" /\ conda = FALSE /\ environments = {}
    /\ manifest = <<>> /\ installed = <<>> /\ disk = {} /\ resolved = {}
    /\ last = NoCall("start")
    /\ rt = NoRt
    /\ \E a \in PureDecos, b \in PureDecos, t \in DatastoreTypes :
          /\ SameDeps(a, b, t)
          /\ IsPermutation(channel_deps(a), channel_deps(b))
          /\ pure = [a |-> a, b |-> b, type |-> t, id_a |-> NotComputed, id_b |-> NotComputed]

EnvIdOfA ==
    /\ pure.id_a = NotComputed
    /\ pure' = [pure EXCEPT !.id_a = env_id(pure.a, pure.type)]
    /\ UNCHANGED <<TYPE, conda, environments, manifest, installed, disk, resolved, last, rt>>

EnvIdOfB ==
    /\ pure.id_b = NotComputed
    /\ pure' = [pure EXCEPT !.id_b = env_id(pure.b, pure.type)]
    /\ UNCHANGED <<TYPE, conda, environments, manifest, installed, disk, resolved, last, rt>>

NextPure == EnvIdOfA \/ EnvIdOfB

SpecEnvId == InitPure /\ [][NextPure]_vars

BothComputed == pure.id_a # NotComputed /\ pure.id_b # NotComputed

\* C6: two step configurations with the same flow name, architecture, python
\* version, set of (package, version) pairs and channel sequence get the same
\* identity string from _env_id, whatever the insertion order of the packages.
C6_SameIdentityAnyInsertionOrder ==
    (BothComputed /\ channel_deps(pure.a) = channel_deps(pure.b))
        => /\ pure.id_a.ok /\ pure.id_b.ok
           /\ pure.id_a.value = pure.id_b.value

\* C7: two step configurations that differ only in the order of their channel
\* sequence get two different identity strings from _env_id.
C7_ChannelOrderChangesIdentity ==
    (BothComputed /\ channel_deps(pure.a) # channel_deps(pure.b))
        => /\ pure.id_a.ok /\ pure.id_b.ok
           /\ pure.id_a.value # pure.id_b.value

---------------------------------------------------------------------------
(* The specification of the launch of a task: the runtime hooks of one     *)
(* decorator, after step_init and runtime_init.                            *)

UBF_CONTROL == "ubf_control"
UBF_TASK == "ubf_task"
UbfContexts == {"None", UBF_CONTROL, UBF_TASK}

\* The commands that force the linux-64 architecture.
CONDA_FORCE_LINUX64 == {"batch", "kubernetes"}

\* A variant of lines 90-101 in which the value of the flow comes first.
is_enabled_flow_first(d, ubf_context) ==
    IF ubf_context = UBF_CONTROL THEN FALSE
    ELSE LET x == IF d.base_attributes.disabled # "None" THEN d.base_attributes.disabled
                  ELSE IF d.attributes.disabled # "None" THEN d.attributes.disabled
                  ELSE "False"
         IN  x # "True"

\* Lines 90-101.
is_enabled(d, ubf_context) ==
    IF ubf_context = UBF_CONTROL THEN FALSE
    ELSE LET x == IF d.attributes.disabled # "None" THEN d.attributes.disabled
                  ELSE IF d.base_attributes.disabled # "None" THEN d.base_attributes.disabled
                  ELSE "False"
         IN  x # "True"

\* A path: a directory or a file of the system, of the private directory of
\* runtime_init, or of a conda environment.
Path(root, id, sub) == [root |-> root, id |-> id, sub |-> sub]

SysBin == Path("system", NoId, "bin")
SysExecutable == Path("system", NoId, "bin/python")
FlowFile == Path("system", NoId, "flow.py")
UserLib == Path("system", NoId, "lib")
MetaflowHome == Path("metaflow_home", NoId, "")
ExtDir == Path("metaflow_home", NoId, "ext")

NoPaths == [is_none |-> TRUE, items |-> <<>>]
PathList(items) == [is_none |-> FALSE, items |-> items]

\* conda.python(env_id): the interpreter of an environment.
conda_python(s, id) ==
    IF s.conda = FALSE THEN [ok |-> FALSE, exc |-> "AttributeError"]
    ELSE IF id \notin DOMAIN s.installed THEN [ok |-> FALSE, exc |-> "TypeError"]
    ELSE [ok |-> TRUE, value |-> Path("conda_env", id, "bin/python")]

\* os.path.dirname of the interpreter of an environment.
dirname(path) == Path(path.root, path.id, "bin")

\* d[key] = value on a dict with string keys.
env_set(d, key, value) ==
    [k \in DOMAIN d \cup {key} |-> IF k = key THEN value ELSE d[k]]

CliArgs(commands, env, entrypoint) ==
    [commands |-> commands, env |-> env, entrypoint |-> entrypoint]

\* A variant of line 404 that sees no forcing command.
no_force_always(commands) == TRUE

\* Line 404.
no_force(commands) ==
    \A x \in CONDA_FORCE_LINUX64 : \A i \in DOMAIN commands : commands[i] # x

\* Lines 406-409.
python_path(r) ==
    IF ~r.addl_paths.is_none THEN r.addl_paths.items \o <<r.metaflow_home>>
    ELSE <<r.metaflow_home>>

\* Lines 411-413.
env_path(r, python) ==
    IF "PATH" \in DOMAIN r.os_environ THEN <<dirname(python)>> \o r.os_environ["PATH"]
    ELSE <<dirname(python)>>

\* Lines 401-418: the cli_args the call leaves, and the exception it raised.
runtime_step_cli(s, r, cli_args, ubf_context) ==
    IF ~(is_enabled(r.deco, ubf_context) /\ no_force(cli_args.commands))
    THEN [cli_args |-> cli_args, exc |-> ""]
    ELSE IF r.env_id = NoId THEN [cli_args |-> cli_args, exc |-> "AttributeError"]
    ELSE LET python == conda_python(s, r.env_id)
         IN  IF ~python.ok THEN [cli_args |-> cli_args, exc |-> python.exc]
             ELSE [cli_args |->
                      [cli_args EXCEPT
                          !.env = env_set(env_set(env_set(@,
                                      "PATH", env_path(r, python.value)),
                                      "PYTHONPATH", python_path(r)),
                                      "_METAFLOW_CONDA_ENV", r.env_id),
                          !.entrypoint = [@ EXCEPT ![1] = python.value]],
                   exc |-> ""]

\* The decorators of the launch: StepA, disabled or not at each scope.
Disabled == {"None", "True", "False"}

RtDecos ==
    { [StepA EXCEPT !.attributes.disabled = x, !.base_attributes.disabled = y]
      : x \in Disabled, y \in Disabled }

\* The plans the framework hands to the hook.
CliInputs ==
    { CliArgs(c, e, <<SysExecutable, FlowFile>>)
      : c \in {<<"step">>, <<"batch", "step">>, <<"kubernetes", "step">>},
        e \in {<<>>, [PYTHONPATH |-> <<UserLib>>]} }

InitRuntime ==
    /\ \E t \in DatastoreTypes :
          LET s == FreshProcess(t, EmptyWorld)
          IN  /\ TYPE = s.TYPE
              /\ conda = s.conda
              /\ environments = s.environments
              /\ manifest = s.manifest
              /\ installed = s.installed
              /\ disk = s.disk
              /\ resolved = s.resolved
    /\ last = NoCall("start")
    /\ pure = NoPure
    /\ \E d \in RtDecos, a \in {NoPaths, PathList(<<ExtDir>>)},
          e \in {<<>>, [PATH |-> <<SysBin>>]} :
          rt = [deco |-> d, metaflow_home |-> MetaflowHome, addl_paths |-> a,
                os_environ |-> e, env_id |-> NoId, called |-> "runtime_init",
                ubf_context |-> "None", cli_in |-> CliArgs(<<>>, <<>>, <<>>),
                cli_args |-> CliArgs(<<>>, <<>>, <<>>), exc |-> ""]

\* Lines 356-360.
RuntimeTaskCreated ==
    \E ubf_context \in UbfContexts :
        IF is_enabled(rt.deco, ubf_context)
        THEN \E o \in prepare_step_environment(State, rt.deco) :
                /\ CommitState(o, "prepare", FALSE)
                /\ rt' = [rt EXCEPT !.called = "runtime_task_created",
                                    !.ubf_context = ubf_context,
                                    !.env_id = IF o.ok THEN o.env_id ELSE @,
                                    !.exc = o.exc]
                /\ UNCHANGED pure
        ELSE /\ rt' = [rt EXCEPT !.called = "runtime_task_created",
                                 !.ubf_context = ubf_context, !.exc = ""]
             /\ UNCHANGED <<TYPE, conda, environments, manifest, installed, disk,
                            resolved, last, pure>>

\* Lines 401-418.
RuntimeStepCli ==
    \E ubf_context \in UbfContexts, cli_args \in CliInputs :
        LET o == runtime_step_cli(State, rt, cli_args, ubf_context)
        IN  /\ rt' = [rt EXCEPT !.called = "runtime_step_cli",
                                !.ubf_context = ubf_context,
                                !.cli_in = cli_args,
                                !.cli_args = o.cli_args,
                                !.exc = o.exc]
            /\ UNCHANGED <<TYPE, conda, environments, manifest, installed, disk,
                           resolved, last, pure>>

NextRuntime == RuntimeTaskCreated \/ RuntimeStepCli

SpecRuntime == InitRuntime /\ [][NextRuntime]_vars

\* The call of runtime_step_cli that rt records was one that injects.
Injects ==
    is_enabled(rt.deco, rt.ubf_context)
        /\ \A i \in DOMAIN rt.cli_in.commands : rt.cli_in.commands[i] \notin {"batch", "kubernetes"}

\* C10: runtime_step_cli sets PATH, PYTHONPATH, _METAFLOW_CONDA_ENV and
\* entrypoint[0] only when the step is enabled for the ubf_context and no
\* command of CONDA_FORCE_LINUX64 is among cli_args.commands; in every other
\* case it leaves cli_args.env and cli_args.entrypoint as they were.
C10_InjectsOnlyWhenEnabledUnforced ==
    rt.called = "runtime_step_cli" =>
        /\ ~Injects => /\ rt.cli_args.env = rt.cli_in.env
                       /\ rt.cli_args.entrypoint = rt.cli_in.entrypoint
                       /\ rt.exc = ""
        /\ (Injects /\ rt.exc = "") =>
              /\ DOMAIN rt.cli_args.env =
                    DOMAIN rt.cli_in.env \cup {"PATH", "PYTHONPATH", "_METAFLOW_CONDA_ENV"}
              /\ rt.cli_args.env["_METAFLOW_CONDA_ENV"] = rt.env_id
              /\ rt.cli_args.env["PATH"][1] = Path("conda_env", rt.env_id, "bin")
              /\ rt.cli_args.env["PYTHONPATH"][Len(rt.cli_args.env["PYTHONPATH"])] = rt.metaflow_home
              /\ rt.cli_args.entrypoint =
                    <<Path("conda_env", rt.env_id, "bin/python")>> \o Tail(rt.cli_in.entrypoint)
        /\ rt.cli_args.commands = rt.cli_in.commands

\* An enabled step whose environment is prepared is launched with a forcing
\* command, and the plan is left as it was.
C10_Witness ==
    /\ rt.called = "runtime_step_cli"
    /\ is_enabled(rt.deco, rt.ubf_context)
    /\ rt.env_id # NoId /\ rt.env_id \in DOMAIN installed
    /\ \E i \in DOMAIN rt.cli_in.commands : rt.cli_in.commands[i] \in {"batch", "kubernetes"}
    /\ rt.cli_in.env # <<>>
    /\ rt.cli_args = rt.cli_in

---------------------------------------------------------------------------
(* The lifecycle of one decorator in a run: step_init, runtime_init, then  *)
(* for every task runtime_task_created and runtime_step_cli, and at the    *)
(* end runtime_finished.  The files under /tmp are the field fs of rt.     *)

\* The extension namespace package resolves to at most this many physical paths.
MaxExtPaths == 2

EXT_PKG == "metaflow_extensions"

\* self.metaflow_home before runtime_init assigned it.
NoHome == Path("", NoId, "")

\* The names under the private directory: the subdirectory mkdtemp makes for
\* the i-th physical path, and the symlink in it.
SubDirNames == <<"tmp1", "tmp2", "tmp3">>
SubLinkNames == <<"tmp1/metaflow_extensions", "tmp2/metaflow_extensions",
                  "tmp3/metaflow_extensions">>
SiteNames == <<"site1/metaflow_extensions", "site2/metaflow_extensions",
               "site3/metaflow_extensions">>

InHome(name) == Path("metaflow_home", NoId, name)
SubDir(i) == InHome(SubDirNames[i])
SitePath(i) == Path("system", NoId, SiteNames[i])

\* An entry of the file system: a directory, a symlink to target, or a file.
FsEntry(path, kind, target) == [path |-> path, kind |-> kind, target |-> target]
Directory(path) == FsEntry(path, "dir", NoHome)
Symlink(target, path) == FsEntry(path, "symlink", target)
File(path) == FsEntry(path, "file", NoHome)

\* A directory of another process in /tmp.
ForeignDir == Directory(Path("foreign_home", NoId, ""))

\* The entry is the directory home or lies in its tree.
Under(e, home) == e.path.root = home.root /\ e.path.id = home.id

\* shutil.rmtree(home): the directory and everything in its tree are removed;
\* symlinks are removed, not followed.
rmtree(fs, home) == {e \in fs : ~Under(e, home)}

\* What importlib.import_module(EXT_PKG) gives: an ImportError, or a module
\* whose __path__ lists physical paths (by number), possibly more than once.
NoExtPkg == [importable |-> FALSE, path |-> <<>>]
ExtPkgs ==
    {NoExtPkg} \cup
    { [importable |-> TRUE, path |-> p]
      : p \in UNION { [1..n -> 1..MaxExtPaths] : n \in 1..MaxExtPaths } }

\* list(set(m.__path__)): the distinct paths, in any order.
custom_paths(m) ==
    LET distinct == {m.path[i] : i \in DOMAIN m.path}
    IN  { q \in [1..Cardinality(distinct) -> distinct] :
            \A i, j \in DOMAIN q : i # j => q[i] # q[j] }

\* One file system operation of runtime_init: the entry it creates, and the
\* directory it appends to self.addl_paths (NoHome: none).
FsOp(entry, addl) == [entry |-> entry, addl |-> addl]

\* A variant of lines 309-326 that always takes the shortcut of one symlink.
ext_ops_direct(paths) ==
    <<FsOp(Symlink(SitePath(paths[1]), InHome(EXT_PKG)), NoHome)>>

\* Lines 309-326: the operations for the extension package, paths being
\* custom_paths in the order of the list.
ext_ops(paths) ==
    IF Len(paths) = 1
    THEN <<FsOp(Symlink(SitePath(paths[1]), InHome(EXT_PKG)), NoHome)>>
    ELSE LET RECURSIVE each(_)
             each(i) ==
                IF i > Len(paths) THEN <<>>
                ELSE <<FsOp(Directory(SubDir(i)), NoHome),
                       FsOp(Symlink(SitePath(paths[i]), InHome(SubLinkNames[i])), SubDir(i))>>
                     \o each(i + 1)
         IN  each(1)

\* Lines 274-330: the file system operations of runtime_init in their order.
\* info_present is os.path.isfile(path_to_info); m is the extension package
\* and paths its custom_paths.
runtime_init_ops(info_present, m, paths) ==
    <<FsOp(Directory(MetaflowHome), NoHome),
      FsOp(Symlink(Path("system", NoId, "metaflow"), InHome("metaflow")), NoHome),
      IF info_present
      THEN FsOp(Symlink(Path("system", NoId, "INFO"), InHome("INFO")), NoHome)
      ELSE FsOp(File(InHome("INFO")), NoHome)>>
    \o (IF m.importable THEN ext_ops(paths) ELSE <<>>)
    \o <<FsOp(File(InHome("trampolines")), NoHome)>>

\* Lines 274-330, when the first n operations succeed and the next one, if
\* there is one, raises: the fields of the decorator and the files it leaves.
runtime_init(r, info_present, m, paths, n) ==
    LET ops == runtime_init_ops(info_present, m, paths)
        done == {i \in 1..Len(ops) : i <= n}
        RECURSIVE appended(_)
        appended(i) ==
            IF i > n THEN <<>>
            ELSE (IF ops[i].addl # NoHome THEN <<ops[i].addl>> ELSE <<>>) \o appended(i + 1)
        is_namespace == m.importable /\ Len(paths) # 1
    IN  [r EXCEPT
            !.called = "runtime_init",
            !.init_exc = IF n < Len(ops) THEN "OSError" ELSE "",
            !.exc = IF n < Len(ops) THEN "OSError" ELSE "",
            !.metaflow_home = IF n >= 1 THEN MetaflowHome ELSE @,
            !.addl_paths = IF n >= 3 /\ is_namespace THEN PathList(appended(1)) ELSE NoPaths,
            !.ext = [m EXCEPT !.path = paths],
            !.fs = @ \cup {ops[i].entry : i \in done}]

\* A variant of lines 420-421 that removes the directory only after a success.
runtime_finished_on_success(r, exception, rmtree_fails) ==
    IF r.metaflow_home = NoHome
    THEN [r EXCEPT !.called = "runtime_finished", !.exception = exception,
                   !.exc = "AttributeError"]
    ELSE IF rmtree_fails \/ exception # "None"
    THEN [r EXCEPT !.called = "runtime_finished", !.exception = exception,
                   !.exc = IF rmtree_fails THEN "OSError" ELSE ""]
    ELSE [r EXCEPT !.called = "runtime_finished", !.exception = exception,
                   !.exc = "", !.fs = rmtree(@, r.metaflow_home)]

\* Lines 420-421.  rmtree_fails: shutil.rmtree raises.
runtime_finished(r, exception, rmtree_fails) ==
    IF r.metaflow_home = NoHome
    THEN [r EXCEPT !.called = "runtime_finished", !.exception = exception,
                   !.exc = "AttributeError"]
    ELSE IF rmtree_fails
    THEN [r EXCEPT !.called = "runtime_finished", !.exception = exception,
                   !.exc = "OSError"]
    ELSE [r EXCEPT !.called = "runtime_finished", !.exception = exception,
                   !.exc = "", !.fs = rmtree(@, r.metaflow_home)]

\* The decorators of the run: the step enabled, disabled at its own scope,
\* and a step with a channel.
LifecycleDecos ==
    {StepA, [StepA EXCEPT !.attributes.disabled = "True"], StepD}

\* What the run finds: nothing, or the manifest of an earlier run whose conda
\* environment was removed since.
LifecycleWorlds == {w \in PriorWorlds : w.installed = <<>>}

\* Lines 335-349: the decorator after step_init.
InitLifecycle ==
    /\ \E t \in DatastoreTypes, w \in LifecycleWorlds :
          LET s == FreshProcess(t, w)
          IN  /\ TYPE = s.TYPE
              /\ conda = s.conda
              /\ environments = s.environments
              /\ manifest = s.manifest
              /\ installed = s.installed
              /\ disk = s.disk
              /\ resolved = s.resolved
    /\ last = NoCall("start")
    /\ pure = NoPure
    /\ \E d \in LifecycleDecos, f \in {{}, {ForeignDir}} :
          rt = [deco |-> d, metaflow_home |-> NoHome, addl_paths |-> NoPaths,
                os_environ |-> [PATH |-> <<SysBin>>], env_id |-> NoId,
                called |-> "step_init", ubf_context |-> "None",
                cli_in |-> CliArgs(<<>>, <<>>, <<>>),
                cli_args |-> CliArgs(<<>>, <<>>, <<>>), exc |-> "",
                init_exc |-> "", exception |-> "None", ext |-> NoExtPkg,
                fs |-> f]

UnchangedWorld ==
    UNCHANGED <<TYPE, conda, environments, manifest, installed, disk, resolved, last, pure>>

\* Lines 274-330.
RuntimeInit ==
    /\ rt.called = "step_init"
    /\ \E info_present \in BOOLEAN, m \in ExtPkgs :
          \E paths \in (IF m.importable THEN custom_paths(m) ELSE {<<>>}) :
             \E n \in 0..Len(runtime_init_ops(info_present, m, paths)) :
                rt' = runtime_init(rt, info_present, m, paths, n)
    /\ UnchangedWorld

\* The framework creates a task: lines 356-360, after runtime_init returned
\* or after the launch of the task before.
TaskCreated ==
    /\ \/ rt.called = "runtime_init" /\ rt.exc = ""
       \/ rt.called = "runtime_step_cli"
    /\ RuntimeTaskCreated

\* The framework launches the task it created: lines 401-418, with the
\* ubf_context of the task.
StepCli ==
    /\ rt.called = "runtime_task_created" /\ rt.exc = ""
    /\ RuntimeStepCli
    /\ rt'.ubf_context = rt.ubf_context
    /\ rt'.cli_in.env = <<>>

\* Lines 420-421: the run ends, with or without an exception.
RuntimeFinished ==
    /\ rt.called \in {"runtime_init", "runtime_task_created", "runtime_step_cli"}
    /\ \E exception \in {"None", "Exception"}, rmtree_fails \in BOOLEAN :
          rt' = runtime_finished(rt, exception, rmtree_fails)
    /\ UnchangedWorld

NextLifecycle == RuntimeInit \/ TaskCreated \/ StepCli \/ RuntimeFinished

SpecLifecycle == InitLifecycle /\ [][NextLifecycle]_vars

\* C11: when runtime_init created the private directory, then after
\* runtime_finished(exception) returns, for every exception and also when
\* runtime_init raised after creating the directory, neither the directory
\* nor anything of its tree exists; the call raises only when rmtree does.
C11_HomeRemovedAfterFinished ==
    (rt.called = "runtime_finished" /\ rt.metaflow_home # NoHome) =>
        /\ rt.exc \in {"", "OSError"}
        /\ rt.exc = "" => \A e \in rt.fs : ~Under(e, MetaflowHome)

\* runtime_init raised after it created the directory and a subdirectory,
\* the run ended with an exception, and the tree is gone while the directory
\* of the other process is still there.
C11_Witness ==
    /\ rt.called = "runtime_finished" /\ rt.exc = ""
    /\ rt.exception = "Exception"
    /\ rt.init_exc # "" /\ rt.metaflow_home # NoHome
    /\ rt.addl_paths # NoPaths /\ Len(rt.addl_paths.items) >= 1
    /\ rt.fs = {ForeignDir}

\* runtime_init returned and runtime_finished has not run.
HomeReady ==
    rt.called \in {"runtime_init", "runtime_task_created", "runtime_step_cli"} /\ rt.init_exc = ""

\* The physical paths the extension package resolves to.
ExtPaths == {rt.ext.path[i] : i \in DOMAIN rt.ext.path}

\* The subdirectories of the private directory.
SubDirs == {e \in rt.fs : e.kind = "dir" /\ Under(e, MetaflowHome) /\ e.path # MetaflowHome}

\* The symlinks named after the namespace in the tree of the private directory.
ExtLinks ==
    {e \in rt.fs : e.kind = "symlink" /\ Under(e, MetaflowHome)
                     /\ e.target \in {SitePath(i) : i \in 1..MaxExtPaths}}

\* The call of runtime_step_cli that rt records changed the plan.
Applied == rt.called = "runtime_step_cli" /\ rt.cli_args # rt.cli_in

\* C12: when the extension package resolves to k >= 2 physical paths,
\* runtime_init creates k subdirectories, each with one symlink named after
\* the namespace to one of the paths, records the k subdirectories as
\* additional entries and creates no symlink of that name directly under the
\* private directory, and the PYTHONPATH of runtime_step_cli is the k entries
\* followed by the private directory; when it resolves to one path there is
\* one direct symlink, no subdirectory and no additional entry.
C12_OneSubdirectoryPerPath ==
    (HomeReady /\ rt.ext.importable) =>
        LET k == Cardinality(ExtPaths)
        IN  /\ k >= 2 =>
                /\ Cardinality(SubDirs) = k
                /\ ~rt.addl_paths.is_none
                /\ Len(rt.addl_paths.items) = k
                /\ {rt.addl_paths.items[i] : i \in 1..k} = {e.path : e \in SubDirs}
                /\ Cardinality(ExtLinks) = k
                /\ {e.target : e \in ExtLinks} = {SitePath(i) : i \in ExtPaths}
                /\ \A e \in ExtLinks : \E i \in 1..k : e.path = InHome(SubLinkNames[i])
                /\ \A e \in rt.fs : e.path # InHome(EXT_PKG)
                /\ Applied => rt.cli_args.env["PYTHONPATH"] =
                                 rt.addl_paths.items \o <<rt.metaflow_home>>
            /\ k = 1 =>
                /\ SubDirs = {}
                /\ rt.addl_paths = NoPaths
                /\ ExtLinks = {Symlink(SitePath(CHOOSE i \in ExtPaths : TRUE), InHome(EXT_PKG))}
                /\ Applied => rt.cli_args.env["PYTHONPATH"] = <<rt.metaflow_home>>

\* A package of two physical paths, and a task launched with the two
\* subdirectories before the private directory.
C12_Witness ==
    /\ HomeReady /\ Applied
    /\ Cardinality(ExtPaths) = 2
    /\ Cardinality(SubDirs) = 2
    /\ Len(rt.cli_args.env["PYTHONPATH"]) = 3

\* C20 (state): when runtime_step_cli is called for an enabled task without
\* a forcing command, it raises nothing, self.env_id is the identity of the
\* step, the conda handle is set, and the identity is in the manifest and
\* among the installed environments.
C20_StateReady ==
    (rt.called = "runtime_step_cli" /\ Injects) =>
        /\ rt.exc = ""
        /\ rt.env_id # NoId
        /\ rt.env_id = env_id(rt.deco, TYPE).value
        /\ conda
        /\ rt.env_id \in DOMAIN manifest
        /\ rt.env_id \in DOMAIN installed
        /\ rt.env_id \in environments
        /\ rt.cli_args.env["_METAFLOW_CONDA_ENV"] = rt.env_id

\* C20 (assignment): a runtime_task_created that returns assigns self.env_id
\* exactly when is_enabled(ubf_context) holds.
C20_AssignedWhenEnabled ==
    (rt'.called = "runtime_task_created" /\ rt'.exc = "") =>
        IF is_enabled(rt.deco, rt'.ubf_context)
        THEN rt'.env_id = last'.env_id /\ last'.op = "prepare" /\ last'.ok
        ELSE rt'.env_id = rt.env_id /\ last' = last

\* C20: under the lifecycle order, whenever runtime_step_cli applies the
\* execution context, self.env_id was assigned by runtime_task_created (which
\* assigns it exactly when the step is enabled for the ubf_context), the
\* conda handle is set, and the identity is in the manifest and installed.
C20_ContextStateIsSet == []C20_StateReady /\ [][C20_AssignedWhenEnabled]_vars

\* A task is launched in an environment that runtime_task_created had to
\* create from the manifest of an earlier run, after a task of the control
\* role was launched without the context.
C20_Witness ==
    /\ Applied /\ rt.exc = ""
    /\ last.op = "prepare" /\ last.ok /\ last.log.explicit
    /\ rt.env_id \in DOMAIN installed

---------------------------------------------------------------------------
(* One call of _cache_env, step by step: the scan of the packages, the     *)
(* downloads of the pool, the upload and the return.                       *)

\* The workers of the pool that can be busy at a time (the code has 8; the
\* queue is never longer than NumPkgs).
PoolSize == 2

\* The suffixes conda can report for a tarball.
ReportedSuffixes == {<<>>, <<".tar.bz2">>, <<".conda">>, <<".tar.bz2", ".conda">>}

\* The records conda.package_info can give for the packages 1..k.
InfoLists ==
    UNION { { [i \in 1..k |-> [PackageInfo(i) EXCEPT
                                  !.package_tarball_full_path.exts = x[i]]]
              : x \in [1..k -> ReportedSuffixes] }
            : k \in {NumPkgs - 1, NumPkgs} }

\* Where a queued download is.
Phase(at, result) == [at |-> at, result |-> result]
Queued == Phase("queued", "")

\* A variant of line 225 that does not wait for the downloads.
pool_map_async(phase) == TRUE

\* Line 225: Pool.map returns or raises when every download has ended.
pool_map_ended(phase) == \A i \in DOMAIN phase : phase[i].at \in {"done", "raised"}

\* Lines 227-229: list_of_path_and_filehandle.
list_of_path_and_filehandle(files) ==
    [i \in DOMAIN files |-> [path |-> files[i].path, filehandle |-> files[i].tarball_path]]

InitCacheEnv ==
    /\ TYPE \in RemoteTypes /\ conda = TRUE /\ environments = {}
    /\ manifest = <<>> /\ installed = <<>> /\ disk = {} /\ resolved = {}
    /\ last = NoCall("start")
    /\ rt = NoRt
    /\ \E infos \in InfoLists :
          \E d \in SUBSET {CondaTarball(infos[i].fn) : i \in DOMAIN infos} :
             pure = [infos |-> infos, disk0 |-> d, disk |-> d, stage |-> "called",
                     files |-> <<>>, queue |-> <<>>, phase |-> <<>>,
                     saved |-> <<>>, keys |-> <<>>, exc |-> ""]

UnchangedButPure ==
    UNCHANGED <<TYPE, conda, environments, manifest, installed, disk, resolved, last, rt>>

\* Lines 202-223: the loop over the packages.
ScanPackages ==
    /\ pure.stage = "called"
    /\ LET queue == to_download(pure.disk, pure.infos)
       IN  pure' = [pure EXCEPT !.files = cache_files(pure.infos),
                                !.queue = queue,
                                !.phase = [i \in DOMAIN queue |-> Queued],
                                !.stage = IF queue # <<>> THEN "pool" ELSE "map_ended"]
    /\ UnchangedButPure

\* A free worker takes an entry and sends the request (line 198).
Fetch ==
    /\ pure.stage = "pool"
    /\ Cardinality({i \in DOMAIN pure.phase : pure.phase[i].at \in {"fetching", "writing"}}) < PoolSize
    /\ \E i \in DOMAIN pure.phase :
          /\ pure.phase[i] = Queued
          /\ pure' = [pure EXCEPT !.phase[i] = Phase("fetching", "")]
    /\ UnchangedButPure

\* The request is answered or fails (line 198); on an answer the worker
\* opens local_path for writing (line 199).
Respond ==
    /\ pure.stage = "pool"
    /\ \E i \in DOMAIN pure.phase, result \in FetchResults :
          /\ pure.phase[i].at = "fetching"
          /\ pure' = IF result = "conn_error"
                     THEN [pure EXCEPT !.phase[i] = Phase("raised", result)]
                     ELSE [pure EXCEPT !.phase[i] = Phase("writing", result),
                                       !.disk = @ \cup {pure.queue[i].local_path}]
    /\ UnchangedButPure

\* The copy ends or fails and the file is closed (lines 199-200).
Close ==
    /\ pure.stage = "pool"
    /\ \E i \in DOMAIN pure.phase :
          /\ pure.phase[i].at = "writing"
          /\ pure' = [pure EXCEPT !.phase[i] =
                         IF download_raises(pure.phase[i].result)
                         THEN Phase("raised", pure.phase[i].result)
                         ELSE Phase("done", pure.phase[i].result)]
    /\ UnchangedButPure

\* Line 225: Pool.map returns, or raises what a download raised.
PoolMapEnds ==
    /\ pure.stage = "pool"
    /\ pool_map_ended(pure.phase)
    /\ pure' = IF \E i \in DOMAIN pure.phase : pure.phase[i].at = "raised"
               THEN [pure EXCEPT !.stage = "raised", !.exc = "download"]
               ELSE [pure EXCEPT !.stage = "map_ended"]
    /\ UnchangedButPure

\* Lines 227-239: the files are opened, save_bytes is called and the keys
\* are returned.
Upload ==
    /\ pure.stage = "map_ended"
    /\ IF \E i \in DOMAIN pure.files : ~isfile(pure.disk, pure.files[i].tarball_path)
       THEN pure' = [pure EXCEPT !.stage = "raised", !.exc = "open"]
       ELSE \E up \in BOOLEAN :
               pure' = [pure EXCEPT
                           !.saved = Append(@, list_of_path_and_filehandle(pure.files)),
                           !.stage = IF up THEN "returned" ELSE "raised",
                           !.exc = IF up THEN "" ELSE "upload",
                           !.keys = IF up THEN [i \in DOMAIN pure.files |-> pure.files[i].path]
                                    ELSE @]
    /\ UnchangedButPure

NextCacheEnv == ScanPackages \/ Fetch \/ Respond \/ Close \/ PoolMapEnds \/ Upload

SpecCacheEnv == InitCacheEnv /\ [][NextCacheEnv]_vars

\* The scan of the packages is over.
Scanned == pure.stage # "called"

\* The package of record i is queued for download.
IsQueued(i) ==
    \E j \in DOMAIN pure.queue : pure.queue[j].local_path = pure.files[i].tarball_path

\* C13: the path checked for existence ends in '.tar.bz2' for every artifact,
\* normalizing it again changes nothing, and an artifact is not queued when
\* its canonical file exists, whatever suffix its reported file name carries;
\* it is queued when the canonical file does not exist.
C13_CanonicalTarballPath ==
    Scanned =>
        \A i \in DOMAIN pure.infos :
            LET checked == pure.files[i].tarball_path
            IN  /\ endswith(checked, ".tar.bz2")
                /\ checked = CondaTarball(pure.infos[i].fn)
                /\ tarball_path([pure.infos[i] EXCEPT !.package_tarball_full_path = checked])
                      = checked
                /\ IsQueued(i) <=> checked \notin pure.disk0

\* An artifact reported with the suffix '.conda' whose '.tar.bz2' file is in
\* the package cache, and one reported with '.tar.bz2', are both not queued.
C13_Witness ==
    /\ Scanned
    /\ pure.queue = <<>>
    /\ \E i, j \in DOMAIN pure.infos :
          /\ pure.infos[i].package_tarball_full_path.exts = <<".conda">>
          /\ pure.infos[j].package_tarball_full_path.exts = <<".tar.bz2">>

\* C16: save_bytes is called only when no download is in flight and every
\* queued download has completed, it is called once, with one (key,
\* filehandle) pair for every artifact of the environment, and the list
\* returned has the key of every artifact.
C16_OneUploadAfterAllDownloads ==
    /\ Len(pure.saved) <= 1
    /\ Len(pure.saved) = 1 =>
          /\ \A i \in DOMAIN pure.phase : pure.phase[i].at = "done"
          /\ pure.saved[1] =
                [i \in DOMAIN pure.infos |->
                    [path |-> dest_path(pure.infos[i]),
                     filehandle |-> CondaTarball(pure.infos[i].fn)]]
    /\ pure.stage = "returned" =>
          /\ Len(pure.saved) = 1
          /\ pure.keys = [i \in DOMAIN pure.infos |-> dest_path(pure.infos[i])]

\* The call returned after it downloaded one artifact and found another one
\* in the package cache: both are in the one batch.
C16_Witness ==
    /\ pure.stage = "returned"
    /\ Len(pure.queue) = 1 /\ Len(pure.infos) = 2
    /\ Len(pure.saved) = 1 /\ Len(pure.saved[1]) = 2

\* C17: no two entries of the download queue have the same local tarball
\* path, so at no time two workers have the same file open for writing.
C17_WorkersOwnDisjointFiles ==
    \A i, j \in DOMAIN pure.queue :
        i # j =>
            /\ pure.queue[i].local_path # pure.queue[j].local_path
            /\ (pure.phase[i].at = "writing" /\ pure.phase[j].at = "writing")
                  => CondaTarball(pure.queue[i].url.path) # CondaTarball(pure.queue[j].url.path)

\* Two workers write at the same time, each its own file.
C17_Witness ==
    \E i, j \in DOMAIN pure.phase :
        /\ i # j
        /\ pure.phase[i].at = "writing" /\ pure.phase[j].at = "writing"
        /\ pure.queue[i].local_path # pure.queue[j].local_path

---------------------------------------------------------------------------
(* The specification of _lib_deps as a function: the libraries of a step   *)
(* are drawn as a dict, and _lib_deps is applied to the step with the dict *)
(* and to the step with the dict written as a str.                         *)

RECURSIVE join(_, _)
\* sep.join(items)
join(items, sep) ==
    IF items = <<>> THEN <<>>
    ELSE IF Len(items) = 1 THEN items[1]
    ELSE items[1] \o sep \o join(Tail(items), sep)

\* The ways a dict of libraries is written as a str:
\* pkg:ver,pkg:ver / pkg: ver, pkg: ver / {"pkg": "ver", "pkg": "ver"}
Styles == {"compact", "spaced", "braced"}

\* The dict libs written as a str.
Written(libs, style) ==
    LET item(i) ==
            CASE style = "compact" -> <<W(libs[i].name), Ch(":"), W(libs[i].ver)>>
              [] style = "spaced" -> <<W(libs[i].name), Ch(":"), Ch(" "), W(libs[i].ver)>>
              [] OTHER -> <<Ch("\""), W(libs[i].name), Ch("\""), Ch(":"), Ch(" "),
                            Ch("\""), W(libs[i].ver), Ch("\"")>>
        body == join([i \in DOMAIN libs |-> item(i)],
                     IF style = "compact" THEN <<Ch(",")>> ELSE <<Ch(","), Ch(" ")>>)
    IN  IF style = "braced" THEN <<Ch("{")>> \o body \o <<Ch("}")>> ELSE body

\* The str with the colon of its first item left out.
Malformed(s) ==
    LET i == CHOOSE k \in DOMAIN s : s[k].c = ":" /\ \A j \in 1..(k - 1) : s[j].c # ":"
    IN  SubSeq(s, 1, i - 1) \o <<Ch(" ")>> \o SubSeq(s, i + 1, Len(s))

\* The libraries of the flow: none, a library of its own, and libraries the
\* step or the pinned defaults name too.
FlowLibMaps ==
    {<<>>, <<kv(NUMPY, 1)>>, <<kv(BOTO3, 2), kv(REQUESTS, 1)>>, <<kv(AZURE_STORAGE_BLOB, 2)>>}

LibDepsOf(d, type) ==
    IF lib_deps_raises(d) THEN [ok |-> FALSE, exc |-> "ValueError"]
    ELSE [ok |-> TRUE, value |-> lib_deps(d, type)]

InitLibDeps ==
    /\ TYPE = "local" /\ conda = FALSE /\ environments = {}
    /\ manifest = <<>> /\ installed = <<>> /\ disk = {} /\ resolved = {}
    /\ last = NoCall("start")
    /\ rt = NoRt
    /\ \E libs \in LibMaps, base \in FlowLibMaps, style \in Styles,
          t \in DatastoreTypes, well \in BOOLEAN :
          /\ ~well => libs # <<>>
          /\ pure = [libs |-> libs,
                     base |-> base,
                     str |-> IF well THEN Written(libs, style)
                             ELSE Malformed(Written(libs, style)),
                     well |-> well, type |-> t,
                     of_dict |-> NotComputed, of_str |-> NotComputed]

\* _lib_deps of the step whose libraries are the dict.
LibDepsOfDict ==
    /\ pure.of_dict = NotComputed
    /\ pure' = [pure EXCEPT !.of_dict =
                   LibDepsOf(Deco("F", "linux-64",
                                  Attrs(pure.libs, NoChannels, None, "None"),
                                  Attrs(pure.base, NoChannels, None, "None")), pure.type)]
    /\ UnchangedButPure

\* _lib_deps of the step whose libraries are the str.
LibDepsOfStr ==
    /\ pure.of_str = NotComputed
    /\ pure' = [pure EXCEPT !.of_str =
                   LibDepsOf(Deco("F", "linux-64",
                                  Attrs(pure.str, NoChannels, None, "None"),
                                  Attrs(pure.base, NoChannels, None, "None")), pure.type)]
    /\ UnchangedButPure

NextLibDeps == LibDepsOfDict \/ LibDepsOfStr

SpecLibDeps == InitLibDeps /\ [][NextLibDeps]_vars

\* The version the dict libs gives the package n, None if it does not name it.
VersionIn(libs, n) ==
    IF \E i \in DOMAIN libs : libs[i].name = n
    THEN libs[CHOOSE i \in DOMAIN libs : libs[i].name = n].ver
    ELSE None

NamesIn(libs) == {libs[i].name : i \in DOMAIN libs}

\* C15: the result of _lib_deps names every package the pinned defaults, the
\* flow or the step name, once, with the version of the step if the step
\* names it, else that of the flow if the flow names it, else the pinned
\* one; and the step given as the str 'pkg:ver,pkg:ver' has the result of
\* the step given as the dict.
C15_LibDepsPrecedence ==
    LET pinned == get_pinned_conda_libs(HostPython, pure.type)
    IN  /\ pure.of_dict # NotComputed =>
            /\ pure.of_dict.ok
            /\ NamesIn(pure.of_dict.value) =
                  NamesIn(pinned) \cup NamesIn(pure.base) \cup NamesIn(pure.libs)
            /\ Len(pure.of_dict.value) = Cardinality(NamesIn(pure.of_dict.value))
            /\ \A n \in NamesIn(pure.of_dict.value) :
                  VersionIn(pure.of_dict.value, n) =
                      IF n \in NamesIn(pure.libs) THEN VersionIn(pure.libs, n)
                      ELSE IF n \in NamesIn(pure.base) THEN VersionIn(pure.base, n)
                      ELSE VersionIn(pinned, n)
        /\ (pure.of_dict # NotComputed /\ pure.of_str # NotComputed /\ pure.well) =>
              pure.of_str = pure.of_dict

\* A step that names boto3 in braces and quotes under s3, where the pinned
\* defaults and the flow name it too: the str and the dict give one result.
C15_Witness ==
    /\ pure.of_dict # NotComputed /\ pure.of_str # NotComputed /\ pure.well
    /\ pure.type = "s3"
    /\ BOTO3 \in NamesIn(pure.libs) /\ BOTO3 \in NamesIn(pure.base)
    /\ Len(pure.libs) = 2
    /\ pure.str[1] = Ch("{")
    /\ pure.of_str.ok /\ VersionIn(pure.of_str.value, BOTO3) = VersionIn(pure.libs, BOTO3)

---------------------------------------------------------------------------
(* More properties of the launch and of the resolution state machine. *)

\* The step is enabled for ubf_context, as the attributes say it.
EnabledByAttributes(d, ubf_context) ==
    /\ ubf_context # UBF_CONTROL
    /\ \/ d.attributes.disabled = "False"
       \/ d.attributes.disabled = "None" /\ d.base_attributes.disabled # "True"

\* C14: is_enabled(ubf_context) is false for the control role whatever the
\* attributes are; otherwise it is the negation of the first value that is
\* not None among disabled of the step, disabled of the flow and False.  A
\* launch without a forcing command goes on to the execution context exactly
\* when that value is true.
C14_EnabledByStepThenFlow ==
    (rt.called = "runtime_step_cli"
        /\ \A i \in DOMAIN rt.cli_in.commands : rt.cli_in.commands[i] \notin {"batch", "kubernetes"})
    => ((rt.cli_args # rt.cli_in \/ rt.exc # "") <=> EnabledByAttributes(rt.deco, rt.ubf_context))

\* The step says disabled=False, the flow says disabled=True, and the task
\* is launched with the context.
C14_Witness ==
    /\ rt.called = "runtime_step_cli" /\ rt.exc = ""
    /\ rt.deco.attributes.disabled = "False"
    /\ rt.deco.base_attributes.disabled = "True"
    /\ rt.ubf_context = UBF_TASK
    /\ rt.cli_args # rt.cli_in

\* The call that made the step was a _resolve_step_environment that returned
\* after it wrote the manifest.
WroteEntry == ResolveCall /\ last'.ok /\ last'.log.wrote

\* C18: after a _resolve_step_environment that returns and wrote the entry
\* of an identity, read_conda_manifest gives for the identity the payload
\* that was written (the resolution of the call or the stored entry, with
\* the keys of _cache_env as cache_urls when _cache_env ran), and for every
\* other identity the entry it had before the call.
C18_WriteThenRead ==
    [][WroteEntry =>
        LET id == last'.env_id
            before == read_conda_manifest(State)
            after == read_conda_manifest([manifest |-> manifest'])
            base == IF last'.log.resolver
                    THEN [explicit |-> [i \in DOMAIN installed'[id] |-> [exact |-> installed'[id][i]]],
                          deps |-> after[id].deps,
                          urls |-> [i \in DOMAIN installed'[id] |-> Url(installed'[id][i])],
                          order |-> [i \in DOMAIN installed'[id] |-> installed'[id][i]]]
                    ELSE before[id]
            written == IF last'.log.cache
                       THEN [k \in DOMAIN base \cup {"cache_urls"} |->
                                IF k = "cache_urls" THEN KeysOf(installed'[id]) ELSE base[k]]
                       ELSE base
        IN  /\ DOMAIN after = DOMAIN before \cup {id}
            /\ DOMAIN after[id] = DOMAIN written
            /\ \A k \in DOMAIN written : after[id][k] = written[k]
            /\ \A other \in DOMAIN before \ {id} : after[other] = before[other]]_vars

\* A second identity was resolved, cached and written while the manifest
\* held the entry of the first.
C18_Witness ==
    /\ last.op = "resolve" /\ last.ok /\ last.log.wrote /\ last.log.cache
    /\ last.before = "Unresolved"
    /\ Cardinality(DOMAIN manifest) = 2

\* The entry of id has cache_urls in m.
HasCacheUrls(m, id) == id \in DOMAIN m /\ "cache_urls" \in DOMAIN m[id]

\* C19: an entry gets cache_urls, or other ones, only in a call in which
\* save_bytes returned for all the artifacts of the identity; and when
\* _resolve_step_environment raises (in the resolver, in a download or in
\* the upload) nothing is written and the manifest is as it was.
C19_CacheUrlsOnlyAfterUpload ==
    [][/\ \A id \in EnvIds :
             (HasCacheUrls(manifest', id)
                 /\ (~HasCacheUrls(manifest, id)
                        \/ manifest'[id].cache_urls # manifest[id].cache_urls
                        \/ (last'.log.wrote /\ last'.env_id = id)))
             => /\ last'.ok /\ last'.log.uploaded /\ last'.env_id = id
                /\ manifest'[id].cache_urls = KeysOf(installed'[id])
       /\ (last'.op = "resolve" /\ ~last'.ok)
             => ~last'.log.wrote /\ manifest' = manifest]_vars

\* The upload raised in a call that had run the resolver, and the manifest
\* is as it was, without the identity.
C19_Witness ==
    /\ last.op = "resolve" /\ ~last.ok /\ last.exc = "upload"
    /\ last.log.resolver /\ ~last.log.wrote
    /\ last.env_id \notin DOMAIN manifest

====
